---- MODULE Spec2Model ----
(***************************************************************************)
(* Food supply chain ledger simulator (CNN115588/blockchain-project).      *)
(*                                                                         *)
(* The repository holds three versions of one script: src/indexu.js,       *)
(* src/unnamed/part_000 and src/unnamed/part_001.  Each has its own        *)
(* simulatedBlockchain array, its own nextTransactionId counter and the    *)
(* functions addTransaction, processFairPricing and verifyFoodConditions.  *)
(* The three differ only in the violation lookup of processFairPricing     *)
(* (strict "=== true" against a truthy test) and in what                   *)
(* verifyFoodConditions writes to details.violationDetected.               *)
(*                                                                         *)
(* The model runs the three programs side by side on the same sequence of  *)
(* calls: every variable is a function of the program name, and one        *)
(* action is one call made to each program with the same argument.         *)
(*                                                                         *)
(* JavaScript objects.  addTransaction copies the input record with a      *)
(* spread, which is a shallow copy: the ledger event and the input record  *)
(* share ONE details object.  Details objects therefore live in a heap     *)
(* (heap[p][ref]) and events hold a reference; reference 0 stands for a    *)
(* record that has no details property.  An object is the set of its own   *)
(* keys plus a value per key; a key that is not in "keys" reads as         *)
(* undefined.  The flag violationDetected takes JavaScript values, written *)
(* here as the strings "true", "false", "1" (a truthy non-boolean) and     *)
(* "undefined" (key absent).                                               *)
(*                                                                         *)
(* Numbers.  spoilageRate is held in hundredths (15 stands for 0.15), and  *)
(* spoilage, adjusted quantity and amount are held in hundredths of a kg   *)
(* and of a currency unit (14875000 stands for 148750.00).  For every      *)
(* value the model enumerates the IEEE double computation of the script    *)
(* gives exactly the same number as this exact arithmetic.                 *)
(*                                                                         *)
(* Not modelled: the timestamp (written after the spread, read by no       *)
(* function), console output, and the fields of details that no function   *)
(* branches on (vehicleId, delayHours, weatherCondition, ...).             *)
(***************************************************************************)
EXTENDS Integers, Sequences, FiniteSets, TLC

VARIABLES
    callerRecords,        \* the input records the caller has built, in order
    simulatedBlockchain,  \* [Programs -> Seq(event)]
    nextTransactionId,    \* [Programs -> Int]
    heap,                 \* [Programs -> Seq(details object)], indexed by reference
    verified,             \* [Programs -> Seq(status)]: what verifyFoodConditions last
                          \*   returned for each ledger event ("" when it never returned)
    ret,                  \* [Programs -> record]: the last call and what it returned
    sim                   \* runSimulation: where its loop stands (idle when the
                          \*   functions are called directly)

vars ==
    <<callerRecords, simulatedBlockchain, nextTransactionId, heap, verified, ret, sim>>

Programs == {"indexu", "part_000", "part_001"}

\* ------------------------------------------------------------------ bounds

\* The largest number of addTransaction calls in a run of Spec.
MaxTx == 3

\* The largest number of addTransaction calls in a run of SpecCond.
MaxTxCond == 1

\* The largest number of addTransaction calls in a run of SpecPricing.
MaxTxPricing == 3

\* The largest length of sampleData in a run of SpecSim.
MaxSim == 4

\* ----------------------------------------------------------- program data

\* let nextTransactionId = 1001
FirstTransactionId == 1001

\* spoilageRate = 0.15 (default of the destructuring), in hundredths
DefaultSpoilageRate == 15

EventTypes ==
    {"HARVEST", "PROCESS", "TRANSPORT", "WAREHOUSE_RECEIPT", "RETAIL_RECEIPT",
     "PAYMENT_REQUEST"}

\* ------------------------------------------------------------ JS objects

\* The value read from key k of object d: the stored value, or "undefined".
Has(d, k) == k \in d.keys

\* A details object with no key at all; the builders below set keys.
EmptyDetails ==
    [keys |-> {},
     currentTempCelsius |-> 0, currentHumidityPercent |-> 0,
     thresholds |-> [minTemp |-> 0, maxTemp |-> 0, minHumidity |-> 0, maxHumidity |-> 0],
     violationDetected |-> "undefined",
     qualityVerified |-> FALSE, deliveryConfirmed |-> FALSE,
     quantityKg |-> 0, agreedPricePerKg |-> 0, spoilageRate |-> 0]

\* details.violationDetected as JavaScript reads it.
Flag(d) == IF Has(d, "violationDetected") THEN d.violationDetected ELSE "undefined"

\* JavaScript truthiness of a flag value.
Truthy(v) == v \in {"true", "1"}

\* The details of a condition-bearing record, as in sampleData.
Cond(temp, hum, thr) ==
    [EmptyDetails EXCEPT
        !.keys = {"currentTempCelsius", "currentHumidityPercent", "thresholds"},
        !.currentTempCelsius = temp,
        !.currentHumidityPercent = hum,
        !.thresholds = thr]

\* Condition details that carry no thresholds.
CondNoThresholds(temp, hum) ==
    [EmptyDetails EXCEPT
        !.keys = {"currentTempCelsius", "currentHumidityPercent"},
        !.currentTempCelsius = temp,
        !.currentHumidityPercent = hum]

\* The details of a PAYMENT_REQUEST record that names its spoilageRate.
Pay(qv, dc, qty, price, rate) ==
    [EmptyDetails EXCEPT
        !.keys = {"qualityVerified", "deliveryConfirmed", "quantityKg",
                  "agreedPricePerKg", "spoilageRate"},
        !.qualityVerified = qv, !.deliveryConfirmed = dc,
        !.quantityKg = qty, !.agreedPricePerKg = price, !.spoilageRate = rate]

\* The details of a PAYMENT_REQUEST record without a spoilageRate.
PayNoRate(qv, dc, qty, price) ==
    [EmptyDetails EXCEPT
        !.keys = {"qualityVerified", "deliveryConfirmed", "quantityKg",
                  "agreedPricePerKg"},
        !.qualityVerified = qv, !.deliveryConfirmed = dc,
        !.quantityKg = qty, !.agreedPricePerKg = price]

\* The details of a HARVEST or PROCESS record: a quantity, no price.
Harvest(qty) ==
    [EmptyDetails EXCEPT !.keys = {"quantityKg"}, !.quantityKg = qty]

\* A details object that already carries a violationDetected value.
WithFlag(d, v) ==
    [d EXCEPT !.keys = @ \cup {"violationDetected"}, !.violationDetected = v]

\* An input record literal: the caller's object before it is passed on.
Record(type, product, d) ==
    [hasId |-> FALSE, id |-> 0, productId |-> product, eventType |-> type,
     hasDetails |-> TRUE, details |-> d]

\* -------------------------------------------------------- addTransaction

\* The object literal of addTransaction: id is written first and the spread of
\* transactionData follows it, so an id key of the input record replaces the
\* assigned id; details is copied by reference.
newTransaction(transactionData, nextId) ==
    [id |-> IF transactionData.hasId THEN transactionData.id ELSE nextId,
     productId |-> transactionData.productId,
     eventType |-> transactionData.eventType,
     details |-> transactionData.details]

\* Mutant: the counter moves on by two.
bumpTransactionId_byTwo(nextId) == nextId + 2

\* nextTransactionId++ : the counter after a call.
bumpTransactionId(nextId) == nextId + 1

\* Mutant: unshift in place of push (the new event goes to the head).
pushTransaction_unshift(chain, tx) == <<tx>> \o chain

\* simulatedBlockchain.push(newTransaction)
pushTransaction(chain, tx) == Append(chain, tx)

\* ---------------------------------------------------- processFairPricing

\* Mutant: the truthy test of src/unnamed/part_000 in place of === true.
isViolation_truthy(tx, h, productId) ==
    /\ tx.productId = productId
    /\ tx.details # 0
    /\ Truthy(Flag(h[tx.details]))

\* Mutant: the productId comparison is left out of the filter.
isViolation_anyProduct(tx, h, productId) ==
    /\ tx.details # 0
    /\ Flag(h[tx.details]) = "true"

\* Mutant: the filter also selects an event whose temperature is above its range.
isViolation_byTemperature(tx, h, productId) ==
    /\ tx.productId = productId
    /\ tx.details # 0
    /\ \/ Flag(h[tx.details]) = "true"
       \/ /\ Has(h[tx.details], "currentTempCelsius")
          /\ Has(h[tx.details], "thresholds")
          /\ h[tx.details].currentTempCelsius > h[tx.details].thresholds.maxTemp

\* src/indexu.js: tx.productId === productId && tx.details && violationDetected === true
isViolation_indexu(tx, h, productId) ==
    /\ tx.productId = productId
    /\ tx.details # 0
    /\ Flag(h[tx.details]) = "true"

\* src/unnamed/part_000: ... && tx.details.violationDetected (a truthy test)
isViolation_part_000(tx, h, productId) ==
    /\ tx.productId = productId
    /\ tx.details # 0
    /\ Truthy(Flag(h[tx.details]))

\* src/unnamed/part_001: ... && tx.details.violationDetected === true
isViolation_part_001(tx, h, productId) ==
    /\ tx.productId = productId
    /\ tx.details # 0
    /\ Flag(h[tx.details]) = "true"

\* The filter predicate of program p.
isViolation(p, tx, h, productId) ==
    IF p = "indexu" THEN isViolation_indexu(tx, h, productId)
    ELSE IF p = "part_000" THEN isViolation_part_000(tx, h, productId)
         ELSE isViolation_part_001(tx, h, productId)

\* const recentViolations = simulatedBlockchain.filter(...), in program p: the
\* positions of the ledger events the predicate selects, in ledger order
\* (Array.prototype.filter keeps the order of the array).
recentViolations(p, chain, h, productId) ==
    LET F[i \in 0..Len(chain)] ==
            IF i = 0 THEN <<>>
            ELSE IF isViolation(p, chain[i], h, productId)
                 THEN Append(F[i - 1], i) ELSE F[i - 1]
    IN  F[Len(chain)]

\* Mutant: the default rate is 0.10.
spoilageRateOf_tenPercent(d) ==
    IF Has(d, "spoilageRate") THEN d.spoilageRate ELSE 10

\* spoilageRate = 0.15 when the details carry none (hundredths).
spoilageRateOf(d) ==
    IF Has(d, "spoilageRate") THEN d.spoilageRate ELSE DefaultSpoilageRate

\* Mutant: the spoilage is charged once per violation found.
spoilageOf_perViolation(nViolations, spoilageRate, quantityKg) ==
    nViolations * spoilageRate * quantityKg

\* let spoilage = 0; if (recentViolations.length > 0) spoilage = spoilageRate * quantityKg
\* (hundredths of a kg).
spoilageOf(nViolations, spoilageRate, quantityKg) ==
    IF nViolations > 0 THEN spoilageRate * quantityKg ELSE 0

\* adjustedQty = quantityKg - spoilage (hundredths of a kg).
adjustedQtyOf(quantityKg, spoilage) == 100 * quantityKg - spoilage

\* Mutant: a negative payment is replaced by 0.
totalPaymentOf_clamped(adjustedQty, agreedPricePerKg) ==
    IF adjustedQty * agreedPricePerKg < 0 THEN 0 ELSE adjustedQty * agreedPricePerKg

\* totalPayment = adjustedQty * agreedPricePerKg (hundredths of a currency unit).
totalPaymentOf(adjustedQty, agreedPricePerKg) == adjustedQty * agreedPricePerKg

\* Mutant: the delivery test is missing, its case falls through to the final else.
paymentDecision_noDeliveryTest(qualityVerified, deliveryConfirmed, totalPayment) ==
    IF qualityVerified /\ deliveryConfirmed
    THEN [status |-> "Payment Released", amount |-> totalPayment]
    ELSE IF ~qualityVerified
         THEN [status |-> "Quality Pending", amount |-> 0]
         ELSE [status |-> "Pending", amount |-> 0]

\* Mutant: the delivery test comes before the quality test.
paymentDecision_deliveryFirst(qualityVerified, deliveryConfirmed, totalPayment) ==
    IF qualityVerified /\ deliveryConfirmed
    THEN [status |-> "Payment Released", amount |-> totalPayment]
    ELSE IF ~deliveryConfirmed
         THEN [status |-> "Delivery Pending", amount |-> 0]
         ELSE [status |-> "Quality Pending", amount |-> 0]

\* The if / else-if chain that decides the returned {status, amount}.
\* An absent boolean reads as undefined, which is falsy.
paymentDecision(qualityVerified, deliveryConfirmed, totalPayment) ==
    IF qualityVerified /\ deliveryConfirmed
    THEN [status |-> "Payment Released", amount |-> totalPayment]
    ELSE IF ~qualityVerified
         THEN [status |-> "Quality Pending", amount |-> 0]
         ELSE IF ~deliveryConfirmed
              THEN [status |-> "Delivery Pending", amount |-> 0]
              ELSE [status |-> "Pending", amount |-> 0]

\* Mutant: the lookup stops at the payment request, leaving out the events
\* appended after it.
processFairPricing_priorOnly(p, chain, h, paymentTransaction) ==
    LET d           == h[paymentTransaction.details]
        recent      == SelectSeq(recentViolations(p, chain, h,
                                                  paymentTransaction.productId),
                                 LAMBDA i : chain[i].id < paymentTransaction.id)
        spoilage    == spoilageOf(Len(recent), spoilageRateOf(d), d.quantityKg)
        adjustedQty == adjustedQtyOf(d.quantityKg, spoilage)
        decision    == paymentDecision(Has(d, "qualityVerified") /\ d.qualityVerified,
                                       Has(d, "deliveryConfirmed") /\ d.deliveryConfirmed,
                                       totalPaymentOf(adjustedQty, d.agreedPricePerKg))
    IN  [status |-> decision.status, amount |-> decision.amount,
         spoilage |-> spoilage, recentViolations |-> recent]

\* processFairPricing(paymentTransaction) in program p: what it computes and returns.
processFairPricing(p, chain, h, paymentTransaction) ==
    LET d           == h[paymentTransaction.details]
        recent      == recentViolations(p, chain, h, paymentTransaction.productId)
        spoilage    == spoilageOf(Len(recent), spoilageRateOf(d), d.quantityKg)
        adjustedQty == adjustedQtyOf(d.quantityKg, spoilage)
        decision    == paymentDecision(Has(d, "qualityVerified") /\ d.qualityVerified,
                                       Has(d, "deliveryConfirmed") /\ d.deliveryConfirmed,
                                       totalPaymentOf(adjustedQty, d.agreedPricePerKg))
    IN  [status |-> decision.status, amount |-> decision.amount,
         spoilage |-> spoilage, recentViolations |-> recent]

\* Mutant: processFairPricing clears the violations it has charged for.
heapAfterPricing_clearsViolations(h, paymentTransaction) ==
    [ref \in 1..Len(h) |->
        IF Flag(h[ref]) = "true" THEN [h[ref] EXCEPT !.violationDetected = "false"]
        ELSE h[ref]]

\* Mutant: processFairPricing marks the request it found violations for.
heapAfterPricing_marksRequest(h, paymentTransaction) ==
    [h EXCEPT ![paymentTransaction.details] =
        [@ EXCEPT !.keys = @ \cup {"violationDetected"}, !.violationDetected = "true"]]

\* The details objects after processFairPricing: it assigns to no property of
\* the request or of any ledger event.
heapAfterPricing(h, paymentTransaction) == h

\* -------------------------------------------------- verifyFoodConditions

\* Mutant: <= and >= in place of < and >, so a value on a bound fires.
temperatureViolation_inclusive(d) ==
    /\ Has(d, "currentTempCelsius")
    /\ \/ d.currentTempCelsius <= d.thresholds.minTemp
       \/ d.currentTempCelsius >= d.thresholds.maxTemp

\* currentTempCelsius < minTemp || currentTempCelsius > maxTemp
\* (a comparison with undefined is false).
temperatureViolation(d) ==
    /\ Has(d, "currentTempCelsius")
    /\ \/ d.currentTempCelsius < d.thresholds.minTemp
       \/ d.currentTempCelsius > d.thresholds.maxTemp

\* currentHumidityPercent < minHumidity || currentHumidityPercent > maxHumidity
humidityViolation(d) ==
    /\ Has(d, "currentHumidityPercent")
    /\ \/ d.currentHumidityPercent < d.thresholds.minHumidity
       \/ d.currentHumidityPercent > d.thresholds.maxHumidity

\* The message pushed by the first if: the measured value and the expected range.
temperatureMessage(d) ==
    [kind |-> "Temperature violation", value |-> d.currentTempCelsius,
     min |-> d.thresholds.minTemp, max |-> d.thresholds.maxTemp]

\* The message pushed by the second if.
humidityMessage(d) ==
    [kind |-> "Humidity violation", value |-> d.currentHumidityPercent,
     min |-> d.thresholds.minHumidity, max |-> d.thresholds.maxHumidity]

\* Mutant: the humidity is checked in an else branch of the temperature check.
violationsOf_elseIf(d) ==
    IF temperatureViolation(d) THEN <<temperatureMessage(d)>>
    ELSE IF humidityViolation(d) THEN <<humidityMessage(d)>> ELSE <<>>

\* let violations = []; the two ifs, in source order, each pushing its message.
violationsOf(d) ==
    (IF temperatureViolation(d) THEN <<temperatureMessage(d)>> ELSE <<>>)
        \o (IF humidityViolation(d) THEN <<humidityMessage(d)>> ELSE <<>>)

\* Mutant: the humidity branch pushes its message but leaves the status alone.
statusOf_temperatureOnly(d) ==
    IF Has(d, "currentTempCelsius")
       /\ (\/ d.currentTempCelsius < d.thresholds.minTemp
           \/ d.currentTempCelsius > d.thresholds.maxTemp)
    THEN "Condition Violation" ELSE "Conditions Met"

\* let status = 'Conditions Met'; each if that fires sets 'Condition Violation'.
statusOf(d) ==
    IF temperatureViolation(d) \/ humidityViolation(d)
    THEN "Condition Violation" ELSE "Conditions Met"

\* Mutant: the flag is written only when a violation was found.
markViolation_onlyTrue(d, violations) ==
    IF Len(violations) > 0
    THEN [d EXCEPT !.keys = @ \cup {"violationDetected"}, !.violationDetected = "true"]
    ELSE d

\* Mutant: the flag is not written at all (as in src/unnamed/part_000).
markViolation_none(d, violations) == d

\* src/indexu.js: conditionTransaction.details.violationDetected = violations.length > 0
markViolation_indexu(d, violations) ==
    WithFlag(d, IF Len(violations) > 0 THEN "true" ELSE "false")

\* src/unnamed/part_000: verifyFoodConditions writes nothing to the details.
markViolation_part_000(d, violations) == d

\* src/unnamed/part_001: violationDetected = true in the if branch, false in the else.
markViolation_part_001(d, violations) ==
    IF Len(violations) > 0 THEN WithFlag(d, "true") ELSE WithFlag(d, "false")

\* The details object after verifyFoodConditions of program p has run on it.
markViolation(p, d, violations) ==
    IF p = "indexu" THEN markViolation_indexu(d, violations)
    ELSE IF p = "part_000" THEN markViolation_part_000(d, violations)
         ELSE markViolation_part_001(d, violations)

\* verifyFoodConditions throws a TypeError before it writes anything when it
\* destructures an undefined details or an undefined thresholds.
verifyThrows(h, conditionTransaction) ==
    \/ conditionTransaction.details = 0
    \/ ~Has(h[conditionTransaction.details], "thresholds")

\* --------------------------------------------------------- return values

\* What a call returned; one shape for the three operations.
NoReturn ==
    [op |-> "none", arg |-> 0, threw |-> FALSE, status |-> "", violations |-> <<>>,
     amount |-> 0, spoilage |-> 0, recentViolations |-> <<>>]

\* What addTransaction returned: the stored event, at position arg of the ledger.
ReturnOfAdd(arg) == [NoReturn EXCEPT !.op = "addTransaction", !.arg = arg]

\* A TypeError thrown by op called on the event at position arg.
Thrown(op, arg) == [NoReturn EXCEPT !.op = op, !.arg = arg, !.threw = TRUE]

\* {status, violations} returned by verifyFoodConditions.
ReturnOfVerify(arg, d) ==
    [NoReturn EXCEPT !.op = "verifyFoodConditions", !.arg = arg,
                     !.status = statusOf(d), !.violations = violationsOf(d)]

\* {status, amount} returned by processFairPricing, with the locals it computed.
ReturnOfPricing(arg, r) ==
    [NoReturn EXCEPT !.op = "processFairPricing", !.arg = arg,
                     !.status = r.status, !.amount = r.amount,
                     !.spoilage = r.spoilage, !.recentViolations = r.recentViolations]

\* ------------------------------------------------------------ input data

\* thresholds of the TRANSPORT record of sampleData that violates (30 C in 20-28).
SampleThresholds ==
    [minTemp |-> 20, maxTemp |-> 28, minHumidity |-> 40, maxHumidity |-> 60]

\* The record literals the caller passes in runs of Spec.
InputRecords ==
    { Record("TRANSPORT", "P", Cond(30, 50, SampleThresholds)),
      Record("TRANSPORT", "P", Cond(28, 40, SampleThresholds)),
      Record("TRANSPORT", "Q", Cond(30, 61, SampleThresholds)),
      Record("RETAIL_RECEIPT", "P", WithFlag(Cond(25, 55, SampleThresholds), "1")),
      Record("WAREHOUSE_RECEIPT", "Q", WithFlag(CondNoThresholds(30, 50), "true")),
      Record("RETAIL_RECEIPT", "Q", WithFlag(Cond(25, 55, SampleThresholds), "true")),
      Record("PAYMENT_REQUEST", "P", Pay(TRUE, TRUE, 500, 350, 15)),
      Record("PAYMENT_REQUEST", "Q", PayNoRate(TRUE, FALSE, 300, 400)),
      [Record("HARVEST", "P", EmptyDetails) EXCEPT
          !.hasId = TRUE, !.id = 1002, !.hasDetails = FALSE] }

\* ------------------------------------------------------------------ state

\* runSimulation is not running: the functions are called directly.
SimIdle == [pc |-> "idle", n |-> 0, i |-> 0]

Init ==
    /\ callerRecords = <<>>
    /\ simulatedBlockchain = [p \in Programs |-> <<>>]
    /\ nextTransactionId = [p \in Programs |-> FirstTransactionId]
    /\ heap = [p \in Programs |-> <<>>]
    /\ verified = [p \in Programs |-> <<>>]
    /\ ret = [p \in Programs |-> NoReturn]
    /\ sim = SimIdle

\* The number of events in the ledgers (the three programs got the same calls).
NTx == Len(callerRecords)

\* ---------------------------------------------------------------- actions

\* addTransaction(transactionData) in each program, transactionData being the
\* caller's record cr.
Stored(cr) ==
    /\ simulatedBlockchain' =
          [p \in Programs |->
              pushTransaction(simulatedBlockchain[p],
                              newTransaction(cr, nextTransactionId[p]))]
    /\ nextTransactionId' =
          [p \in Programs |-> bumpTransactionId(nextTransactionId[p])]
    /\ verified' = [p \in Programs |-> Append(verified[p], "")]
    /\ ret' = [p \in Programs |-> ReturnOfAdd(Len(simulatedBlockchain[p]) + 1)]

\* The caller builds a new record from the literal rec (its details object is
\* allocated) and passes it to addTransaction.
AddTransaction(rec) ==
    LET ref == IF rec.hasDetails THEN Len(heap["indexu"]) + 1 ELSE 0
        cr  == [hasId |-> rec.hasId, id |-> rec.id, productId |-> rec.productId,
                eventType |-> rec.eventType, details |-> ref]
    IN  /\ callerRecords' = Append(callerRecords, cr)
        /\ heap' = [p \in Programs |->
                       IF rec.hasDetails THEN Append(heap[p], rec.details) ELSE heap[p]]
        /\ Stored(cr)

\* The caller passes a record it has passed before: the new event shares the
\* details object of the earlier one.
AddTransactionAgain(k) ==
    /\ callerRecords' = Append(callerRecords, callerRecords[k])
    /\ heap' = heap
    /\ Stored(callerRecords[k])

\* verifyFoodConditions(e), e the ledger event at position i.
VerifyFoodConditions(i) ==
    /\ heap' =
          [p \in Programs |->
              LET tx == simulatedBlockchain[p][i] IN
              IF verifyThrows(heap[p], tx) THEN heap[p]
              ELSE [heap[p] EXCEPT ![tx.details] =
                       markViolation(p, heap[p][tx.details],
                                     violationsOf(heap[p][tx.details]))]]
    /\ verified' =
          [p \in Programs |->
              LET tx == simulatedBlockchain[p][i] IN
              IF verifyThrows(heap[p], tx) THEN verified[p]
              ELSE [verified[p] EXCEPT ![i] = statusOf(heap[p][tx.details])]]
    /\ ret' =
          [p \in Programs |->
              LET tx == simulatedBlockchain[p][i] IN
              IF verifyThrows(heap[p], tx) THEN Thrown("verifyFoodConditions", i)
              ELSE ReturnOfVerify(i, heap[p][tx.details])]
    /\ UNCHANGED <<callerRecords, simulatedBlockchain, nextTransactionId>>

\* The events processFairPricing is called on: those whose details carry the
\* two numbers it multiplies (its precondition).
IsPaymentEvent(i) ==
    LET tx == simulatedBlockchain["indexu"][i] IN
    /\ tx.details # 0
    /\ Has(heap["indexu"][tx.details], "quantityKg")
    /\ Has(heap["indexu"][tx.details], "agreedPricePerKg")

\* processFairPricing(e), e the ledger event at position i.
ProcessFairPricing(i) ==
    /\ IsPaymentEvent(i)
    /\ ret' =
          [p \in Programs |->
              ReturnOfPricing(i, processFairPricing(p, simulatedBlockchain[p],
                                                    heap[p], simulatedBlockchain[p][i]))]
    /\ heap' = [p \in Programs |-> heapAfterPricing(heap[p], simulatedBlockchain[p][i])]
    /\ UNCHANGED <<callerRecords, simulatedBlockchain, nextTransactionId, verified>>

Next ==
    \/ \E rec \in InputRecords : NTx < MaxTx /\ AddTransaction(rec) /\ UNCHANGED sim
    \/ \E k \in 1..NTx : NTx < MaxTx /\ AddTransactionAgain(k) /\ UNCHANGED sim
    \/ \E i \in 1..NTx : VerifyFoodConditions(i) /\ UNCHANGED sim
    \/ \E i \in 1..NTx : ProcessFairPricing(i) /\ UNCHANGED sim

Spec == Init /\ [][Next]_vars

\* ------------------------------------- verifyFoodConditions over its inputs

\* thresholds whose bounds coincide (min = max).
PointThresholds ==
    [minTemp |-> 24, maxTemp |-> 24, minHumidity |-> 50, maxHumidity |-> 50]

\* thresholds of the frozen chain of sampleData (negative temperatures).
FrozenThresholds ==
    [minTemp |-> -20, maxTemp |-> -10, minHumidity |-> 30, maxHumidity |-> 50]

\* Measured values below, at, between, at and above the bounds of the thresholds.
Temps == {-21, -20, -10, 19, 20, 24, 28, 29, 30}
Hums == {29, 30, 39, 40, 50, 60, 61}

\* The record literals of SpecCond: every measured pair against every
\* thresholds object, and one record without thresholds.
CondRecords ==
    { Record("TRANSPORT", "P", Cond(t, u, thr)) :
          t \in Temps, u \in Hums,
          thr \in {SampleThresholds, PointThresholds, FrozenThresholds} }
    \cup { Record("WAREHOUSE_RECEIPT", "P", CondNoThresholds(30, 50)) }

NextCond ==
    \/ \E rec \in CondRecords : NTx < MaxTxCond /\ AddTransaction(rec) /\ UNCHANGED sim
    \/ \E i \in 1..NTx : VerifyFoodConditions(i) /\ UNCHANGED sim

SpecCond == Init /\ [][NextCond]_vars

\* --------------------------------------- processFairPricing over its inputs

\* The record literals of SpecPricing: a violating and a conforming TRANSPORT of
\* product P, a violating TRANSPORT of product Q, and payment requests of P with
\* every combination of the two booleans and the numbers of sampleData.
PricingRecords ==
    { Record("TRANSPORT", "P", Cond(30, 50, SampleThresholds)),
      Record("TRANSPORT", "P", Cond(28, 40, SampleThresholds)),
      Record("TRANSPORT", "Q", Cond(30, 61, SampleThresholds)) }
    \cup { Record("PAYMENT_REQUEST", "P", Pay(qv, dc, 500, 350, 15)) :
              qv \in BOOLEAN, dc \in BOOLEAN }
    \cup { Record("PAYMENT_REQUEST", "P", PayNoRate(TRUE, TRUE, 300, 400)),
           Record("PAYMENT_REQUEST", "P", Pay(TRUE, TRUE, 300, 400, 6)),
           Record("PAYMENT_REQUEST", "P", Pay(TRUE, TRUE, 600, 950, 25)),
           Record("PAYMENT_REQUEST", "P", Pay(FALSE, TRUE, 250, 280, 5)),
           Record("PAYMENT_REQUEST", "P", Pay(TRUE, TRUE, 250, 280, 150)) }

NextPricing ==
    \/ \E rec \in PricingRecords :
          NTx < MaxTxPricing /\ AddTransaction(rec) /\ UNCHANGED sim
    \/ \E k \in 1..NTx : NTx < MaxTxPricing /\ AddTransactionAgain(k) /\ UNCHANGED sim
    \/ \E i \in 1..NTx : VerifyFoodConditions(i) /\ UNCHANGED sim
    \/ \E i \in 1..NTx : ProcessFairPricing(i) /\ UNCHANGED sim

SpecPricing == Init /\ [][NextPricing]_vars

\* ---------------------------------------------------------- runSimulation

\* Mutant: the three fields of the details are not tested before the call.
dispatchOf_noFieldTest(tx, h) ==
    IF tx.eventType = "PAYMENT_REQUEST" THEN "processFairPricing"
    ELSE IF tx.eventType \in {"TRANSPORT", "WAREHOUSE_RECEIPT", "RETAIL_RECEIPT"}
         THEN "verifyFoodConditions"
         ELSE "none"

\* Mutant: TRANSPORT is missing from the event types routed to the conditions check.
dispatchOf_noTransport(tx, h) ==
    IF tx.eventType = "PAYMENT_REQUEST" THEN "processFairPricing"
    ELSE IF /\ tx.eventType \in {"WAREHOUSE_RECEIPT", "RETAIL_RECEIPT"}
            /\ Has(h[tx.details], "currentTempCelsius")
            /\ Has(h[tx.details], "currentHumidityPercent")
            /\ Has(h[tx.details], "thresholds")
         THEN "verifyFoodConditions"
         ELSE "none"

\* Mutant: the receipts are missing from the event types routed to the
\* conditions check.
dispatchOf_transportOnly(tx, h) ==
    IF tx.eventType = "PAYMENT_REQUEST" THEN "processFairPricing"
    ELSE IF /\ tx.eventType = "TRANSPORT"
            /\ Has(h[tx.details], "currentTempCelsius")
            /\ Has(h[tx.details], "currentHumidityPercent")
            /\ Has(h[tx.details], "thresholds")
         THEN "verifyFoodConditions"
         ELSE "none"

\* The if / else-if of the loop body: the function newTx is passed to.
dispatchOf(tx, h) ==
    IF tx.eventType = "PAYMENT_REQUEST" THEN "processFairPricing"
    ELSE IF /\ tx.eventType \in {"TRANSPORT", "WAREHOUSE_RECEIPT", "RETAIL_RECEIPT"}
            /\ Has(h[tx.details], "currentTempCelsius")
            /\ Has(h[tx.details], "currentHumidityPercent")
            /\ Has(h[tx.details], "thresholds")
         THEN "verifyFoodConditions"
         ELSE "none"

\* The record literals of sampleData in runs of SpecSim.  Every record has a
\* details object, as the Transaction typedef requires, and none comes with a
\* violationDetected of its own, as none of sampleData does; one condition
\* record lacks its thresholds and one has an event type the loop does not know.
SimRecords ==
    { Record("HARVEST", "P", Harvest(500)),
      Record("TRANSPORT", "P", Cond(30, 50, SampleThresholds)),
      Record("WAREHOUSE_RECEIPT", "P", Cond(28, 40, SampleThresholds)),
      Record("RETAIL_RECEIPT", "Q", Cond(30, 61, SampleThresholds)),
      Record("TRANSPORT", "P", CondNoThresholds(30, 50)),
      Record("DELIVER", "Q", Cond(30, 50, SampleThresholds)),
      Record("PROCESS", "P", Harvest(450)),
      Record("PAYMENT_REQUEST", "P", Pay(TRUE, TRUE, 500, 350, 15)),
      Record("PAYMENT_REQUEST", "Q", PayNoRate(TRUE, TRUE, 300, 400)) }

\* runSimulation starts on a sampleData of n records; the records are read as
\* the loop reaches them.
InitSim ==
    /\ callerRecords = <<>>
    /\ simulatedBlockchain = [p \in Programs |-> <<>>]
    /\ nextTransactionId = [p \in Programs |-> FirstTransactionId]
    /\ heap = [p \in Programs |-> <<>>]
    /\ verified = [p \in Programs |-> <<>>]
    /\ ret = [p \in Programs |-> NoReturn]
    /\ sim \in {[pc |-> "loop", n |-> n, i |-> 0] : n \in 0..MaxSim}

\* for (const data of sampleData) { const newTx = addTransaction(data); ...
\* data being a record that occurs here for the first time.
SimAppend(rec) ==
    /\ sim.pc = "loop"
    /\ sim.i < sim.n
    /\ AddTransaction(rec)
    /\ sim' = [sim EXCEPT !.pc = "dispatch", !.i = @ + 1]

\* The same, data being a record that sampleData holds at an earlier place too.
SimAppendAgain(k) ==
    /\ sim.pc = "loop"
    /\ sim.i < sim.n
    /\ AddTransactionAgain(k)
    /\ sim' = [sim EXCEPT !.pc = "dispatch", !.i = @ + 1]

\* The rest of the loop body: newTx, the event just appended, is passed to
\* processFairPricing, to verifyFoodConditions or to neither.
SimDispatch ==
    /\ sim.pc = "dispatch"
    /\ LET target == dispatchOf(simulatedBlockchain["indexu"][NTx], heap["indexu"])
       IN  IF target = "processFairPricing" THEN ProcessFairPricing(NTx)
           ELSE IF target = "verifyFoodConditions" THEN VerifyFoodConditions(NTx)
                ELSE UNCHANGED <<callerRecords, simulatedBlockchain,
                                 nextTransactionId, heap, verified, ret>>
    /\ sim' = [sim EXCEPT !.pc = "loop"]

\* The loop has gone through sampleData: runSimulation prints the ledger and ends.
SimEnd ==
    /\ sim.pc = "loop"
    /\ sim.i = sim.n
    /\ sim' = [sim EXCEPT !.pc = "done"]
    /\ UNCHANGED <<callerRecords, simulatedBlockchain, nextTransactionId, heap,
                   verified, ret>>

NextSim ==
    \/ \E rec \in SimRecords : SimAppend(rec)
    \/ \E k \in 1..NTx : SimAppendAgain(k)
    \/ SimDispatch
    \/ SimEnd

SpecSim == InitSim /\ [][NextSim]_vars

\* runSimulation is synchronous code on one thread: nothing suspends the loop,
\* so a step that can be taken is taken.
SpecSimFair == SpecSim /\ WF_vars(NextSim)


\* ================================================================= claims
\* The claims are about src/indexu.js unless they name another file.

Ledger == simulatedBlockchain["indexu"]
Objects == heap["indexu"]
Returned == ret["indexu"]

\* The details object of the ledger event at position i (it has one).
DetailsAt(i) == Objects[Ledger[i].details]

\* The ledger event at position i carries violationDetected = true (the boolean).
FlaggedTrue(i) ==
    /\ Ledger[i].details # 0
    /\ "violationDetected" \in DetailsAt(i).keys
    /\ DetailsAt(i).violationDetected = "true"

\* The last call was op, and it returned (it did not throw).
Did(op) == Returned.op = op /\ ~Returned.threw

\* C1. Id monotonicity: after any sequence of addTransaction calls on a fresh
\* ledger the event at position i has id 1000 + i, so the ids in the ledger are
\* pairwise distinct and strictly increasing in append order, without gaps.
C1_IdMonotonicity ==
    \A i \in 1..Len(Ledger) : Ledger[i].id = FirstTransactionId + (i - 1)

\* C2. Append-only ledger: in every step the old ledger is a prefix of the new
\* one (same events at the same positions, same ids); the length changes only
\* in an addTransaction call, by exactly one, the new event being the tail one
\* that the call returns; verifyFoodConditions and processFairPricing leave the
\* length alone.
C2_AppendOnly ==
    [][ /\ Len(Ledger') >= Len(Ledger)
        /\ SubSeq(Ledger', 1, Len(Ledger)) = Ledger
        /\ Returned'.op = "addTransaction"
              => /\ Len(Ledger') = Len(Ledger) + 1
                 /\ Returned'.arg = Len(Ledger')
        /\ Returned'.op # "addTransaction" => Len(Ledger') = Len(Ledger)
      ]_vars

\* C2 witness: a ledger of three events, the second of which has been found
\* in violation after the third was appended.
C2_Witness ==
    /\ Len(Ledger) = 3
    /\ Did("verifyFoodConditions")
    /\ Returned.arg = 2
    /\ Returned.status = "Condition Violation"
    /\ FlaggedTrue(2)

\* The returned violations list holds a message of this kind.
HasMessage(kind) ==
    \E n \in 1..Len(Returned.violations) : Returned.violations[n].kind = kind

\* C3. Violation detection correctness: for thresholds with min <= max,
\* verifyFoodConditions reports a temperature violation iff the temperature is
\* below minTemp or above maxTemp, a humidity violation iff the humidity is
\* below minHumidity or above maxHumidity, and a value equal to a bound of its
\* range never fires.
C3_ViolationDetection ==
    Did("verifyFoodConditions") =>
        LET d   == DetailsAt(Returned.arg)
            thr == d.thresholds
        IN  /\ thr.minTemp <= thr.maxTemp =>
                  /\ HasMessage("Temperature violation")
                        <=> \/ d.currentTempCelsius < thr.minTemp
                            \/ d.currentTempCelsius > thr.maxTemp
                  /\ d.currentTempCelsius \in {thr.minTemp, thr.maxTemp}
                        => ~HasMessage("Temperature violation")
            /\ thr.minHumidity <= thr.maxHumidity =>
                  /\ HasMessage("Humidity violation")
                        <=> \/ d.currentHumidityPercent < thr.minHumidity
                            \/ d.currentHumidityPercent > thr.maxHumidity
                  /\ d.currentHumidityPercent \in {thr.minHumidity, thr.maxHumidity}
                        => ~HasMessage("Humidity violation")

\* C3 witness: the temperature sits on maxTemp and does not fire, while the
\* humidity, one above maxHumidity, does.
C3_Witness ==
    /\ Did("verifyFoodConditions")
    /\ DetailsAt(Returned.arg).currentTempCelsius
          = DetailsAt(Returned.arg).thresholds.maxTemp
    /\ DetailsAt(Returned.arg).currentHumidityPercent
          = DetailsAt(Returned.arg).thresholds.maxHumidity + 1
    /\ HasMessage("Humidity violation")
    /\ ~HasMessage("Temperature violation")

\* v lies outside the closed range lo..hi.
OutsideRange(v, lo, hi) == ~(lo <= v /\ v <= hi)

\* C4. The status returned by verifyFoodConditions is 'Conditions Met' iff
\* neither check fires iff the violations list is empty, and it is
\* 'Condition Violation' otherwise; no other status is returned.
C4_StatusOfConditions ==
    Did("verifyFoodConditions") =>
        LET d    == DetailsAt(Returned.arg)
            thr  == d.thresholds
            temp == OutsideRange(d.currentTempCelsius, thr.minTemp, thr.maxTemp)
            hum  == OutsideRange(d.currentHumidityPercent,
                                 thr.minHumidity, thr.maxHumidity)
        IN  /\ Returned.status \in {"Conditions Met", "Condition Violation"}
            /\ Returned.status = "Conditions Met" <=> (~temp /\ ~hum)
            /\ Returned.status = "Conditions Met" <=> Returned.violations = <<>>

\* C4 witness: only the humidity check fires, and the status is a violation.
C4_Witness ==
    /\ Did("verifyFoodConditions")
    /\ Returned.status = "Condition Violation"
    /\ Len(Returned.violations) = 1
    /\ HasMessage("Humidity violation")
    /\ DetailsAt(Returned.arg).currentTempCelsius = 24

\* C5. After verifyFoodConditions(e) returns (src/indexu.js and
\* src/unnamed/part_001), e.details.violationDetected is present and is the
\* boolean true when the returned violations list is non-empty and the boolean
\* false when it is empty: the flag equals (status = 'Condition Violation').
C5_FlagWritten ==
    \A p \in {"indexu", "part_001"} :
        (ret[p].op = "verifyFoodConditions" /\ ~ret[p].threw) =>
            LET d == heap[p][simulatedBlockchain[p][ret[p].arg].details]
            IN  /\ "violationDetected" \in d.keys
                /\ d.violationDetected \in {"true", "false"}
                /\ d.violationDetected = "true" <=> Len(ret[p].violations) > 0
                /\ d.violationDetected = "true" <=> ret[p].status = "Condition Violation"

\* C5 witness: the RETAIL_RECEIPT record, which came with violationDetected = 1,
\* was evaluated as met and now carries the boolean false.
C5_Witness ==
    /\ Did("verifyFoodConditions")
    /\ Returned.status = "Conditions Met"
    /\ Ledger[Returned.arg].eventType = "RETAIL_RECEIPT"
    /\ DetailsAt(Returned.arg).violationDetected = "false"
    /\ heap["part_001"][Ledger[Returned.arg].details].violationDetected = "false"

\* The positions in a sequence of positions.
Positions(sel) == {sel[n] : n \in 1..Len(sel)}

\* C6. Annotation persistence (src/indexu.js): in every state, for every ledger
\* event that verifyFoodConditions has been run on, the violation lookup of
\* processFairPricing for the event's productId includes the event iff its
\* evaluation returned a non-empty violations list (status 'Condition
\* Violation').
C6_AnnotationPersistence ==
    \A i \in 1..Len(Ledger) :
        verified["indexu"][i] # "" =>
            (i \in Positions(recentViolations("indexu", Ledger, Objects,
                                              Ledger[i].productId))
                <=> verified["indexu"][i] = "Condition Violation")

\* C6 witness: the first event was found in violation, two more events were
\* appended, and the pricing of the third finds the first in its lookup.
C6_Witness ==
    /\ Len(Ledger) = 3
    /\ verified["indexu"][1] = "Condition Violation"
    /\ verified["indexu"][2] = "Conditions Met"
    /\ Did("processFairPricing")
    /\ Returned.arg = 3
    /\ Returned.recentViolations = <<1>>

\* The ledger events of this product that carry violationDetected = true.
FlaggedOf(productId) ==
    {i \in 1..Len(Ledger) : Ledger[i].productId = productId /\ FlaggedTrue(i)}

\* C7. The lookup of processFairPricing selects, in append order, exactly the
\* ledger events of the request's productId whose violationDetected is the
\* boolean true (not another product's, not a false, absent or merely truthy
\* flag); hasPriorViolation holds iff such an event exists.
C7_LookupExact ==
    Did("processFairPricing") =>
        LET sel == Returned.recentViolations
            pid == Ledger[Returned.arg].productId
        IN  /\ \A n \in 1..(Len(sel) - 1) : sel[n] < sel[n + 1]
            /\ Positions(sel) = FlaggedOf(pid)
            /\ Len(sel) > 0 <=> FlaggedOf(pid) # {}
            /\ Returned.spoilage # 0 => FlaggedOf(pid) # {}

\* C7 witness: the ledger holds an event of the product flagged with the
\* truthy 1 and a later one flagged true; the lookup selects the second alone.
C7_Witness ==
    /\ Did("processFairPricing")
    /\ Len(Ledger) = 3
    /\ Ledger[1].productId = Ledger[3].productId
    /\ Ledger[1].details # 0
    /\ Flag(DetailsAt(1)) = "1"
    /\ Returned.arg = 3
    /\ Returned.recentViolations = <<2>>

\* The details of the event the last call was made on.
Request == DetailsAt(Returned.arg)

\* The spoilage rate of the request, in hundredths (0.15 when it names none).
RateOf(d) == IF "spoilageRate" \in d.keys THEN d.spoilageRate ELSE 15

\* C8. Spoilage gating: when no ledger event of the request's productId is
\* flagged violationDetected = true (whatever other products have),
\* processFairPricing computes spoilage 0, and with both booleans true it
\* returns amount = quantityKg * agreedPricePerKg.
C8_SpoilageGating ==
    (Did("processFairPricing") /\ FlaggedOf(Ledger[Returned.arg].productId) = {}) =>
        /\ Returned.spoilage = 0
        /\ (Request.qualityVerified /\ Request.deliveryConfirmed) =>
              Returned.amount = 100 * (Request.quantityKg * Request.agreedPricePerKg)

\* C8 witness: product Q has a flagged violation, product P has none, and the
\* request of P is paid in full (500 * 350).
C8_Witness ==
    /\ Did("processFairPricing")
    /\ Ledger[Returned.arg].productId = "P"
    /\ FlaggedOf("P") = {}
    /\ FlaggedOf("Q") # {}
    /\ Returned.status = "Payment Released"
    /\ Returned.amount = 17500000

\* C9. Spoilage application: with at least one flagged violation of the
\* request's productId (one or many) and both booleans true, processFairPricing
\* returns 'Payment Released' and amount = (quantityKg - spoilageRate *
\* quantityKg) * agreedPricePerKg; for 500 kg at 350 with rate 0.15 the spoilage
\* is 75, the adjusted quantity 425 and the amount 148750.
C9_SpoilageApplication ==
    (/\ Did("processFairPricing")
     /\ FlaggedOf(Ledger[Returned.arg].productId) # {}
     /\ Request.qualityVerified /\ Request.deliveryConfirmed) =>
        /\ Returned.status = "Payment Released"
        /\ Returned.spoilage = RateOf(Request) * Request.quantityKg
        /\ Returned.amount
              = (100 * Request.quantityKg - RateOf(Request) * Request.quantityKg)
                    * Request.agreedPricePerKg
        /\ (/\ Request.quantityKg = 500 /\ Request.agreedPricePerKg = 350
            /\ RateOf(Request) = 15) =>
              /\ Returned.spoilage = 7500
              /\ Returned.amount = 42500 * 350
              /\ Returned.amount = 14875000

\* C9 witness: two flagged violations of the product, and the request for
\* 500 kg at 350 with rate 0.15 is paid 148750.
C9_Witness ==
    /\ Did("processFairPricing")
    /\ Len(Returned.recentViolations) = 2
    /\ Request.quantityKg = 500
    /\ Returned.status = "Payment Released"
    /\ Returned.amount = 14875000

\* C10. Payment decision table: processFairPricing returns 'Payment Released'
\* iff both booleans are true, 'Quality Pending' with amount 0 iff
\* qualityVerified is false (also when deliveryConfirmed is false too), and
\* 'Delivery Pending' with amount 0 iff qualityVerified is true and
\* deliveryConfirmed is false; a result that is not a release has amount 0
\* whether or not the product has violations.
C10_DecisionTable ==
    Did("processFairPricing") =>
        LET qv == Request.qualityVerified
            dc == Request.deliveryConfirmed
        IN  /\ Returned.status = "Payment Released" <=> (qv /\ dc)
            /\ Returned.status = "Quality Pending" <=> ~qv
            /\ Returned.status = "Delivery Pending" <=> (qv /\ ~dc)
            /\ Returned.status # "Payment Released" => Returned.amount = 0

\* C10 witness: both booleans are false and the product has a flagged
\* violation; the result is 'Quality Pending' with amount 0.
C10_Witness ==
    /\ Did("processFairPricing")
    /\ ~Request.qualityVerified
    /\ ~Request.deliveryConfirmed
    /\ Returned.recentViolations # <<>>
    /\ Returned.status = "Quality Pending"
    /\ Returned.amount = 0

\* ------------------------------------------------------ claims C11 .. C20

\* The first n records of sampleData are those of the end-to-end scenario:
\* HARVEST of 500 kg, TRANSPORT at 30 degrees with range 20..28, PAYMENT_REQUEST
\* for 500 kg at 350 with both booleans true and rate 0.15, all of product P.
Scenario(n) ==
    /\ Len(Ledger) >= n
    /\ n >= 1 =>
          /\ Ledger[1].eventType = "HARVEST" /\ Ledger[1].productId = "P"
          /\ DetailsAt(1).quantityKg = 500
    /\ n >= 2 =>
          /\ Ledger[2].eventType = "TRANSPORT" /\ Ledger[2].productId = "P"
          /\ DetailsAt(2).currentTempCelsius = 30
          /\ "thresholds" \in DetailsAt(2).keys
          /\ DetailsAt(2).thresholds.minTemp = 20
          /\ DetailsAt(2).thresholds.maxTemp = 28
    /\ n >= 3 =>
          /\ Ledger[3].eventType = "PAYMENT_REQUEST" /\ Ledger[3].productId = "P"
          /\ DetailsAt(3).quantityKg = 500
          /\ DetailsAt(3).agreedPricePerKg = 350
          /\ DetailsAt(3).qualityVerified /\ DetailsAt(3).deliveryConfirmed
          /\ RateOf(DetailsAt(3)) = 15

\* The loop body of runSimulation has finished with the n-th record.
SimPast(n) == Len(Ledger) = n /\ sim.pc \in {"loop", "done"}

\* C11. End-to-end scenario: on an empty ledger runSimulation appends
\* HARVEST(500 kg) of P and TRANSPORT of P at 30 degrees with range 20..28,
\* the conditions check of the latter returns 'Condition Violation' and sets
\* its flag to true; it then appends the PAYMENT_REQUEST of P (500 kg at 350,
\* both booleans true, rate 0.15), whose pricing returns 'Payment Released'
\* with amount 148750.
C11_EndToEnd ==
    /\ (Scenario(2) /\ SimPast(2)) =>
          /\ Did("verifyFoodConditions")
          /\ Returned.arg = 2
          /\ Returned.status = "Condition Violation"
          /\ FlaggedTrue(2)
    /\ (Scenario(3) /\ SimPast(3)) =>
          /\ Did("processFairPricing")
          /\ Returned.arg = 3
          /\ Returned.status = "Payment Released"
          /\ Returned.amount = 14875000

\* C11 witness: the scenario has run to its end and the payment of 148750 is
\* released, the TRANSPORT event being flagged.
C11_Witness ==
    /\ Scenario(3)
    /\ SimPast(3)
    /\ FlaggedTrue(2)
    /\ Returned.op = "processFairPricing"
    /\ Returned.amount = 14875000

\* The violation lookup of processFairPricing for this productId, on the
\* ledger as it stands: the positions of the events it returns.
Lookup(productId) == recentViolations("indexu", Ledger, Objects, productId)

\* The productIds of the events in the ledger.
LedgerProducts == {Ledger[i].productId : i \in 1..Len(Ledger)}

\* C12. Idempotent read: two violation lookups for the same productId with no
\* addTransaction call between them return identical results, whatever other
\* operations (verifyFoodConditions, processFairPricing) happen between them:
\* no step other than an addTransaction call changes the result of a lookup.
C12_IdempotentRead ==
    [][ Returned'.op # "addTransaction" =>
            \A productId \in LedgerProducts : Lookup(productId)' = Lookup(productId)
      ]_vars

\* C12 as amended: two violation lookups for the same productId return
\* identical results when neither an addTransaction call nor a
\* verifyFoodConditions call happens between them; processFairPricing calls
\* between them change no lookup.
C12_IdempotentReadAmended ==
    [][ Returned'.op \notin {"addTransaction", "verifyFoodConditions"} =>
            \A productId \in LedgerProducts : Lookup(productId)' = Lookup(productId)
      ]_vars

\* C12 witness: a pricing call on the request of P, the first event in a
\* ledger of three, found the two flagged events of P appended after it.
C12_Witness ==
    /\ Did("processFairPricing")
    /\ Len(Ledger) = 3
    /\ Returned.arg = 1
    /\ Lookup("P") = <<2, 3>>
    /\ Returned.recentViolations = Lookup("P")

\* C14. Default spoilage rate: for a payment request whose details carry no
\* spoilageRate, processFairPricing uses 0.15, so with a flagged violation of
\* the product and both booleans true the amount is (quantityKg - 0.15 *
\* quantityKg) * agreedPricePerKg; the default is resolved at evaluation time:
\* the event stored by addTransaction has the details object it was passed,
\* and no call adds a spoilageRate to a details object that has none.
C14_DefaultSpoilageRate ==
    [][ /\ \A ref \in 1..Len(Objects) :
              "spoilageRate" \in Objects'[ref].keys
                  <=> "spoilageRate" \in Objects[ref].keys
        /\ Returned'.op = "addTransaction" =>
              Ledger'[Len(Ledger')].details = callerRecords'[Len(Ledger')].details
        /\ (/\ Returned'.op = "processFairPricing"
            /\ "spoilageRate" \notin Request'.keys
            /\ \E i \in 1..Len(Ledger) :
                  /\ Ledger[i].productId = Ledger[Returned'.arg].productId
                  /\ FlaggedTrue(i)'
            /\ Request'.qualityVerified /\ Request'.deliveryConfirmed) =>
                /\ Returned'.spoilage = 15 * Request'.quantityKg
                /\ Returned'.amount
                      = (100 * Request'.quantityKg - 15 * Request'.quantityKg)
                            * Request'.agreedPricePerKg
      ]_vars

\* C14 witness: a request for 300 kg at 400 without a spoilageRate, the
\* product having a flagged violation, is paid (300 - 45) * 400 = 102000 and
\* still carries no spoilageRate.
C14_Witness ==
    /\ Did("processFairPricing")
    /\ "spoilageRate" \notin Request.keys
    /\ Request.quantityKg = 300
    /\ FlaggedOf(Ledger[Returned.arg].productId) # {}
    /\ Returned.amount = 10200000

\* The details carry the three fields the conditions check reads.
HasConditionFields(d) ==
    {"currentTempCelsius", "currentHumidityPercent", "thresholds"} \subseteq d.keys

EvaluatedAs(i) == verified["indexu"][i]

\* The loop of runSimulation sends the event at position i to the conditions check.
IsConditionEvent(i) ==
    /\ Ledger[i].eventType \in {"TRANSPORT", "WAREHOUSE_RECEIPT", "RETAIL_RECEIPT"}
    /\ HasConditionFields(DetailsAt(i))

C13_PricingReadOnly ==
    [][ Returned'.op = "processFairPricing" =>
            /\ Ledger' = Ledger
            /\ nextTransactionId'["indexu"] = nextTransactionId["indexu"]
            /\ \A i \in 1..Len(Ledger) :
                  Ledger[i].details # 0 => Flag(DetailsAt(i))' = Flag(DetailsAt(i))
            /\ Objects' = Objects
      ]_vars

\* C13 witness: a payment of 500 kg was released with the spoilage deducted,
\* and the request carries no violationDetected while the violating event of
\* the product still carries true.
C13_Witness ==
    /\ Did("processFairPricing")
    /\ Returned.status = "Payment Released"
    /\ Returned.amount = 14875000
    /\ "violationDetected" \notin Request.keys
    /\ Len(Ledger) = 2
    /\ Returned.arg = 2
    /\ FlaggedTrue(1)
    /\ nextTransactionId["indexu"] = 1003

\* C17. The two range checks of verifyFoodConditions are independent and not
\* short-circuited: the violations list holds exactly one message per firing
\* check (0, 1 or 2 of them), the temperature message before the humidity
\* message when both fire; a temperature of 30 against 20..28 with a humidity
\* of 50 against 40..60 yields the temperature message and nothing else.
C17_IndependentChecks ==
    Did("verifyFoodConditions") =>
        LET d    == DetailsAt(Returned.arg)
            thr  == d.thresholds
            temp == OutsideRange(d.currentTempCelsius, thr.minTemp, thr.maxTemp)
            hum  == OutsideRange(d.currentHumidityPercent,
                                 thr.minHumidity, thr.maxHumidity)
            v    == Returned.violations
        IN  /\ Len(v) = (IF temp THEN 1 ELSE 0) + (IF hum THEN 1 ELSE 0)
            /\ temp => /\ v[1].kind = "Temperature violation"
                       /\ v[1].value = d.currentTempCelsius
            /\ hum => /\ v[Len(v)].kind = "Humidity violation"
                      /\ v[Len(v)].value = d.currentHumidityPercent
            /\ (temp /\ hum) =>
                  /\ v[1].kind = "Temperature violation"
                  /\ v[2].kind = "Humidity violation"
            /\ (/\ d.currentTempCelsius = 30 /\ thr.minTemp = 20 /\ thr.maxTemp = 28
                /\ d.currentHumidityPercent = 50
                /\ thr.minHumidity = 40 /\ thr.maxHumidity = 60) =>
                  v = <<[kind |-> "Temperature violation", value |-> 30,
                         min |-> 20, max |-> 28]>>

\* C17 witness: both checks fire (29 degrees against 20..28, humidity 61
\* against 40..60) and the list holds the temperature message, then the
\* humidity message.
C17_Witness ==
    /\ Did("verifyFoodConditions")
    /\ DetailsAt(Returned.arg).currentTempCelsius = 29
    /\ DetailsAt(Returned.arg).currentHumidityPercent = 61
    /\ Len(Returned.violations) = 2
    /\ Returned.violations[1].kind = "Temperature violation"
    /\ Returned.violations[2].kind = "Humidity violation"
    /\ Returned.violations[2].max = 60

\* C18. verifyFoodConditions(e) changes nothing but the violationDetected of
\* the evaluated event e: the ledger (length, order, ids), the id counter and
\* the violationDetected of every other ledger event are as before the call,
\* also when another ledger event was appended from the same input record as e.
C18_VerifyFrame ==
    [][ Returned'.op = "verifyFoodConditions" =>
            /\ Ledger' = Ledger
            /\ nextTransactionId'["indexu"] = nextTransactionId["indexu"]
            /\ \A i \in 1..Len(Ledger) :
                  (i # Returned'.arg /\ Ledger[i].details # 0) =>
                      Flag(DetailsAt(i))' = Flag(DetailsAt(i))
      ]_vars

\* The largest number of a non-empty finite set of integers.
MaxOf(S) == CHOOSE m \in S : \A x \in S : x <= m

\* The ids of the first n events of the ledger.
IdsUpTo(n) == {Ledger[i].id : i \in 1..n}

\* C19. The id of the event stored and returned by addTransaction is the one
\* the ledger assigns: the largest id in the ledger before the call plus one,
\* or 1001 when the ledger was empty, whatever the input record, also when
\* the input record carries an id of its own.
C19_AssignedId ==
    Did("addTransaction") =>
        LET n == Returned.arg
        IN  /\ n = Len(Ledger)
            /\ Ledger[n].id =
                  (IF n = 1 THEN FirstTransactionId ELSE MaxOf(IdsUpTo(n - 1)) + 1)

\* C20. Re-query reflects the state at query time: the lookup of
\* processFairPricing is over the whole ledger at call time, so a call on a
\* payment event made after a later event of the same productId was appended
\* and evaluated as a Condition Violation finds that event and, both booleans
\* being true, returns the spoilage-reduced amount, although a call made
\* before would have returned the full amount.
C20_RequeryAtCallTime ==
    Did("processFairPricing") =>
        \A i \in (Returned.arg + 1)..Len(Ledger) :
            (/\ Ledger[i].productId = Ledger[Returned.arg].productId
             /\ EvaluatedAs(i) = "Condition Violation") =>
                /\ i \in Positions(Returned.recentViolations)
                /\ Returned.spoilage = RateOf(Request) * Request.quantityKg
                /\ (Request.qualityVerified /\ Request.deliveryConfirmed) =>
                      Returned.amount
                          = (100 * Request.quantityKg
                                - RateOf(Request) * Request.quantityKg)
                                * Request.agreedPricePerKg

\* C20 witness: the request of P for 500 kg at 350 is the first event; the
\* TRANSPORT of P appended after it was found in violation, it is the only
\* flagged event, and the call on the request now returns 148750, not 175000.
C20_Witness ==
    /\ Did("processFairPricing")
    /\ Returned.arg = 1
    /\ Len(Ledger) = 2
    /\ EvaluatedAs(2) = "Condition Violation"
    /\ Returned.recentViolations = <<2>>
    /\ Request.quantityKg = 500
    /\ Returned.amount = 14875000
    /\ Returned.amount < 17500000

\* ------------------------------------------------------ claims C21 .. C30

\* Other condition data a details object could carry: within the sample
\* ranges, outside both of them, and within the ranges of frozen goods.
AltConditions ==
    { [temp |-> 24, hum |-> 50, thr |-> SampleThresholds],
      [temp |-> 30, hum |-> 61, thr |-> SampleThresholds],
      [temp |-> -15, hum |-> 40, thr |-> FrozenThresholds] }

\* The details objects h with the temperature, humidity and thresholds of
\* every object that has a temperature replaced by those f chooses for it;
\* productIds, flags and the fields of payment requests are left as they are.
WithConditions(h, f) ==
    [ref \in 1..Len(h) |->
        IF "currentTempCelsius" \in h[ref].keys
        THEN [h[ref] EXCEPT !.currentTempCelsius = f[ref].temp,
                            !.currentHumidityPercent = f[ref].hum,
                            !.thresholds = f[ref].thr]
        ELSE h[ref]]

\* {status, amount} of a pricing result.
StatusAmount(r) == [status |-> r.status, amount |-> r.amount]

\* C21. The pricing result depends on condition data only through the flag:
\* on two ledgers that agree on every event's productId and violationDetected
\* and differ in temperatures, humidities and thresholds, processFairPricing
\* returns the same status and amount for the same payment event: what a call
\* returned is what it returns on the ledger with other condition data.
C21_PricingBlindToConditions ==
    Did("processFairPricing") =>
        \A f \in [1..Len(Objects) -> AltConditions] :
            StatusAmount(processFairPricing("indexu", Ledger,
                                            WithConditions(Objects, f),
                                            Ledger[Returned.arg]))
                = StatusAmount(Returned)

\* C21 witness: the ledger holds an event of P whose temperature is out of
\* range but which was never evaluated, and the request of P has just been
\* paid in full.
C21_Witness ==
    /\ Did("processFairPricing")
    /\ Ledger[Returned.arg].productId = "P"
    /\ Returned.amount = 17500000
    /\ \E i \in 1..Len(Ledger) :
          /\ Ledger[i].productId = "P"
          /\ Ledger[i].details # 0
          /\ "thresholds" \in DetailsAt(i).keys
          /\ DetailsAt(i).currentTempCelsius > DetailsAt(i).thresholds.maxTemp
          /\ EvaluatedAs(i) = ""

\* C22. In a run of runSimulation the violationDetected of each ledger event
\* is written at most once, and only by verifyFoodConditions: a step that
\* changes the flag of an event is a conditions check, and a conditions check
\* writes to a details object that no earlier check has written to.
C22_FlagWrittenOnce ==
    [][ /\ \A i \in 1..Len(Ledger) :
              (Ledger[i].details # 0 /\ Flag(DetailsAt(i))' # Flag(DetailsAt(i)))
                  => (sim.pc = "dispatch" /\ Returned'.op = "verifyFoodConditions")
        /\ (/\ sim.pc = "dispatch"
            /\ Returned'.op = "verifyFoodConditions" /\ ~Returned'.threw) =>
              \A k \in 1..Len(Ledger) :
                  Ledger[k].details = Ledger[Returned'.arg].details
                      => EvaluatedAs(k) = ""
      ]_vars

\* C23. The 'Pending' result of processFairPricing is unreachable: whatever
\* qualityVerified and deliveryConfirmed are and whatever the ledger holds,
\* the final else of the decision chain is never taken, and every call
\* returns 'Payment Released', 'Quality Pending' or 'Delivery Pending'.
C23_PendingUnreachable ==
    /\ \A qv \in BOOLEAN, dc \in BOOLEAN :
          paymentDecision(qv, dc, 0).status # "Pending"
    /\ Did("processFairPricing") =>
          /\ Returned.status # "Pending"
          /\ Returned.status \in
                {"Payment Released", "Quality Pending", "Delivery Pending"}

\* C23 witness: the quality is verified and the delivery is not, which takes
\* the last else-if of the chain: 'Delivery Pending', with no violation of
\* the product in the ledger.
C23_Witness ==
    /\ Did("processFairPricing")
    /\ Request.qualityVerified
    /\ ~Request.deliveryConfirmed
    /\ Returned.status = "Delivery Pending"
    /\ Returned.recentViolations = <<>>
    /\ Len(Ledger) = 3

\* C24. verifyFoodConditions called on an event whose details carry no
\* thresholds raises no error: it completes and returns a {status,
\* violations} result, the one its comparisons produce.
C24_NoThresholdsNoError ==
    (/\ Returned.op = "verifyFoodConditions"
     /\ Ledger[Returned.arg].details # 0
     /\ "thresholds" \notin DetailsAt(Returned.arg).keys) =>
        /\ ~Returned.threw
        /\ Returned.status \in {"Conditions Met", "Condition Violation"}

\* C25. Payment amounts are not clamped: with a flagged violation of the
\* product, both booleans true and a spoilageRate above 1, processFairPricing
\* returns 'Payment Released' with the negative amount (quantityKg -
\* spoilageRate * quantityKg) * agreedPricePerKg; the request is not rejected
\* and the amount is not replaced by 0.
C25_NoClamping ==
    (/\ Did("processFairPricing")
     /\ FlaggedOf(Ledger[Returned.arg].productId) # {}
     /\ Request.qualityVerified /\ Request.deliveryConfirmed
     /\ RateOf(Request) > 100
     /\ Request.quantityKg > 0 /\ Request.agreedPricePerKg > 0) =>
        /\ Returned.status = "Payment Released"
        /\ Returned.amount
              = (100 * Request.quantityKg - RateOf(Request) * Request.quantityKg)
                    * Request.agreedPricePerKg
        /\ Returned.amount < 0

\* C25 witness: 250 kg at 280 with rate 1.5 and a flagged violation of the
\* product: released with (250 - 375) * 280 = -35000.
C25_Witness ==
    /\ Did("processFairPricing")
    /\ RateOf(Request) = 150
    /\ Request.quantityKg = 250
    /\ Returned.status = "Payment Released"
    /\ Returned.amount = -3500000

\* C26. Annotation persistence in src/unnamed/part_000: for every ledger event
\* its verifyFoodConditions has run on, the violation lookup of its
\* processFairPricing for the event's productId includes the event iff the
\* evaluation returned a non-empty violations list, so that a request of the
\* product priced after a Condition Violation has its spoilage deducted.
C26_AnnotationPersistencePart000 ==
    /\ \A i \in 1..Len(simulatedBlockchain["part_000"]) :
          verified["part_000"][i] # "" =>
              (i \in Positions(recentViolations("part_000",
                                                simulatedBlockchain["part_000"],
                                                heap["part_000"],
                                                simulatedBlockchain["part_000"][i].productId))
                  <=> verified["part_000"][i] = "Condition Violation")
    /\ (/\ ret["part_000"].op = "processFairPricing"
        /\ \E i \in 1..Len(simulatedBlockchain["part_000"]) :
              /\ simulatedBlockchain["part_000"][i].productId
                    = simulatedBlockchain["part_000"][ret["part_000"].arg].productId
              /\ verified["part_000"][i] = "Condition Violation") =>
            ret["part_000"].spoilage # 0

\* C27. A deduction implies an earlier detected violation: whatever the input
\* records and the calls made, processFairPricing computes a non-zero
\* spoilage for a productId only if an earlier verifyFoodConditions call
\* returned 'Condition Violation' for a ledger event of that productId.
C27_DeductionImpliesDetection ==
    (Did("processFairPricing") /\ Returned.spoilage # 0) =>
        \E i \in 1..Len(Ledger) :
            /\ Ledger[i].productId = Ledger[Returned.arg].productId
            /\ EvaluatedAs(i) = "Condition Violation"

\* C28. A recorded violation is permanent: once the ledger holds an event of
\* a productId with violationDetected = true, no later addTransaction,
\* verifyFoodConditions (a re-evaluation of the same event included) or
\* processFairPricing call clears that flag, so the lookup for the productId
\* stays non-empty and every later released payment has its spoilage deducted.
C28_ViolationPermanent ==
    [][ \A i \in 1..Len(Ledger) : FlaggedTrue(i) => FlaggedTrue(i)' ]_vars

\* The parts of a call's outcome the two versions are compared on: whether it
\* threw, {status, violations} and {status, amount}.
Outcome(r) ==
    [op |-> r.op, arg |-> r.arg, threw |-> r.threw, status |-> r.status,
     violations |-> r.violations, amount |-> r.amount]

\* C29. The cores of src/indexu.js and src/unnamed/part_001 are equivalent:
\* run side by side on the same calls with the same inputs they keep
\* identical ledgers (ids, order, violationDetected flags) and id counters
\* and return identical results at every step.
C29_CoresEquivalent ==
    /\ simulatedBlockchain["part_001"] = simulatedBlockchain["indexu"]
    /\ nextTransactionId["part_001"] = nextTransactionId["indexu"]
    /\ \A ref \in 1..Len(heap["indexu"]) :
          Flag(heap["part_001"][ref]) = Flag(heap["indexu"][ref])
    /\ heap["part_001"] = heap["indexu"]
    /\ Outcome(ret["part_001"]) = Outcome(ret["indexu"])

\* C29 witness: both versions have evaluated the second of three events as
\* 'Conditions Met', overwriting the true it came with by false, and both
\* have then returned the same pending result for the request of Q, while
\* the version of src/unnamed/part_000, which writes no flag, still has
\* the true.
C29_Witness ==
    /\ Len(Ledger) = 3
    /\ EvaluatedAs(2) = "Conditions Met"
    /\ verified["part_001"][2] = "Conditions Met"
    /\ Flag(heap["indexu"][Ledger[2].details]) = "false"
    /\ Flag(heap["part_001"][Ledger[2].details]) = "false"
    /\ Flag(heap["part_000"][Ledger[2].details]) = "true"
    /\ ret["indexu"].op = "processFairPricing"
    /\ ret["part_001"].status = "Delivery Pending"
    /\ ret["indexu"].spoilage = 0
    /\ ret["part_000"].spoilage # 0

\* runSimulation has gone through sampleData.
SimDone == sim.pc = "done"

\* C30. A run of runSimulation over a finite sequence of N well-formed input
\* records terminates, and at its end the ledger holds exactly N events, one
\* per input record and in input order, with the ids 1001 .. 1000 + N; no
\* input is skipped or appended twice, whatever its eventType.
C30_SimulationTerminates ==
    /\ <>SimDone
    /\ [](SimDone =>
            /\ Len(Ledger) = sim.n
            /\ Len(callerRecords) = sim.n
            /\ \A i \in 1..sim.n :
                  /\ Ledger[i].id = FirstTransactionId + (i - 1)
                  /\ Ledger[i].eventType = callerRecords[i].eventType
                  /\ Ledger[i].productId = callerRecords[i].productId
                  /\ Ledger[i].details = callerRecords[i].details)

\* C30 witness: a run over four records has ended, the last of them a record
\* that sampleData holds twice and the first of an event type that is not
\* dispatched; the ledger holds four events, the last with id 1004.
C30_Witness ==
    /\ SimDone
    /\ sim.n = 4
    /\ Len(Ledger) = 4
    /\ Ledger[1].eventType = "DELIVER"
    /\ Ledger[4].details = Ledger[2].details
    /\ Ledger[4].id = 1004

====
